---- MODULE Spec2Model ----
(***************************************************************************)
(* Model of src/app.py: the two FastAPI handlers convert_midi and          *)
(* generate_midi, together with the behaviour of the pretty_midi / mido    *)
(* calls they make (PrettyMIDI(), TimeSignature(), Instrument(), Note(),   *)
(* PrettyMIDI.write, PrettyMIDI(file), get_tempo_changes).                 *)
(*                                                                         *)
(* Units.  JSON times (seconds, floats) are integers of milliseconds, so   *)
(* round(x, 3) is a rounding to a whole millisecond.  A tempo inside the   *)
(* library is the integer of microseconds per quarter note that a          *)
(* set_tempo event carries (tick_scale = tempo_us / (10^6 * resolution)    *)
(* seconds per tick).  A time inside a PrettyMIDI object is the integer    *)
(* N of units of 1/(10^6 * resolution) second (TU).  Floating point        *)
(* arithmetic is modelled by exact rational arithmetic and Python's        *)
(* round() by round-half-to-even.                                          *)
(*                                                                         *)
(* A Standard MIDI File is modelled as its sequence of chunks (one MThd    *)
(* chunk, then MTrk chunks holding delta-timed messages), a base64 text    *)
(* as a record holding the bytes it decodes to.                            *)
(***************************************************************************)
EXTENDS Integers, Sequences, FiniteSets, TLC

VARIABLES endpoint, data, pc, midi, mid, buffer, resp

vars == <<endpoint, data, pc, midi, mid, buffer, resp>>

(* Request slots: two requests may be in flight at once. *)
Slots == {1, 2}

(* ------------------------------------------------------------------ *)
(* Bounds of the model                                                  *)
(* ------------------------------------------------------------------ *)
MaxTempoChanges == 2
MaxTimeSigs == 2
MaxInstruments == 2
MaxNotes == 2

(* ------------------------------------------------------------------ *)
(* Program constants                                                    *)
(* ------------------------------------------------------------------ *)
DefaultResolution == 220
DefaultTempoUs == 500000
DrumChannel == 9
DefaultChannel == 0
DefaultProgram == 0

(* ------------------------------------------------------------------ *)
(* Python helpers                                                       *)
(* ------------------------------------------------------------------ *)
EmptyDict == [k \in {} |-> 0]

Get(d, k, default) == IF k \in DOMAIN d THEN d[k] ELSE default

HasKeys(d, ks) == ks \subseteq DOMAIN d

Abs(x) == IF x < 0 THEN -x ELSE x

(* round(n / d) for d > 0, ties to the even integer *)
RoundHalfEven(n, d) ==
    LET q == n \div d
        r == n % d
    IN  IF 2 * r < d THEN q
        ELSE IF 2 * r > d THEN q + 1
        ELSE IF q % 2 = 0 THEN q ELSE q + 1

SeqsUpTo(S, n) == UNION {[1..k -> S] : k \in 0..n}

RECURSIVE InsertBy(_, _, _)
(* insert x after every element that is not greater: a stable sort step *)
InsertBy(Less(_, _), x, s) ==
    IF s = <<>> THEN <<x>>
    ELSE IF Less(x, Head(s)) THEN <<x>> \o s
    ELSE <<Head(s)>> \o InsertBy(Less, x, Tail(s))

RECURSIVE SortBy(_, _)
(* list.sort / sorted: stable *)
SortBy(Less(_, _), s) ==
    IF s = <<>> THEN <<>>
    ELSE InsertBy(Less, s[Len(s)], SortBy(Less, SubSeq(s, 1, Len(s) - 1)))

RECURSIVE SumTo(_, _)
SumTo(f, n) == IF n = 0 THEN 0 ELSE f[n] + SumTo(f, n - 1)

IsPowerOfTwo(n) == n \in {1, 2, 4, 8, 16, 32, 64, 128, 256, 512, 1024}

(* ------------------------------------------------------------------ *)
(* Responses                                                            *)
(* ------------------------------------------------------------------ *)
NoResponse == [status |-> 0, body |-> EmptyDict]

(* a failure that also hands out what was built so far *)
ErrorResponseWithPartial(msg) ==
    [status |-> 400, body |-> [error |-> msg, midi_base64 |-> [empty |-> TRUE, padded |-> TRUE, bytes |-> <<>>]]]

ErrorResponse(msg) == [status |-> 400, body |-> ("error" :> msg)]

OkResponse(body) == [status |-> 200, body |-> body]

(* ------------------------------------------------------------------ *)
(* mido messages                                                        *)
(* ------------------------------------------------------------------ *)
Msg0 == [type |-> "none", time |-> 0, channel |-> 0, note |-> 0, velocity |-> 0,
         program |-> 0, tempo |-> 0, numerator |-> 0, denominator |-> 0]

NoteOnMsg(t, ch, n, v) ==
    [Msg0 EXCEPT !.type = "note_on", !.time = t, !.channel = ch, !.note = n, !.velocity = v]

NoteOffMsg(t, ch, n) ==
    [Msg0 EXCEPT !.type = "note_off", !.time = t, !.channel = ch, !.note = n]

ProgramChangeMsg(t, ch, p) ==
    [Msg0 EXCEPT !.type = "program_change", !.time = t, !.channel = ch, !.program = p]

SetTempoMsg(t, us) == [Msg0 EXCEPT !.type = "set_tempo", !.time = t, !.tempo = us]

TimeSignatureMsg(t, n, d) ==
    [Msg0 EXCEPT !.type = "time_signature", !.time = t, !.numerator = n, !.denominator = d]

EndOfTrackMsg(t) == [Msg0 EXCEPT !.type = "end_of_track", !.time = t]

(* the checks mido.Message / mido.MetaMessage make when a message is built *)
MsgValid(m) ==
    CASE m.type \in {"note_on", "note_off"} ->
            m.channel \in 0..15 /\ m.note \in 0..127 /\ m.velocity \in 0..127
      [] m.type = "program_change" -> m.channel \in 0..15 /\ m.program \in 0..127
      [] m.type = "set_tempo" -> m.tempo \in 0..16777215
      [] m.type = "time_signature" ->
            m.numerator \in 0..255 /\ m.denominator >= 1 /\ IsPowerOfTwo(m.denominator)
      [] OTHER -> TRUE

(* ------------------------------------------------------------------ *)
(* pretty_midi objects                                                  *)
(* ------------------------------------------------------------------ *)

(* seconds (JSON milliseconds) as a time of an object of resolution res *)
TU(ms, res) == ms * 1000 * res

NoMidi == [resolution |-> 0, tick_scales |-> <<>>, max_tick |-> 0,
           time_signature_changes |-> <<>>, instruments |-> <<>>,
           tempo_changes_attr |-> <<>>]

(* pretty_midi.PrettyMIDI(): resolution 220, one tick scale at tick 0 for     *)
(* 120 BPM, a tick-to-time array holding tick 0 only, no _tempo_changes      *)
(* attribute                                                                *)
NewPrettyMIDI ==
    [NoMidi EXCEPT !.resolution = DefaultResolution,
                   !.tick_scales = <<[tick |-> 0, tempo_us |-> DefaultTempoUs]>>]

(* the tick scale in force at a tick: the last one at or before it *)
ScaleIndexAt(scales, tick) ==
    CHOOSE i \in DOMAIN scales :
        /\ scales[i].tick <= tick
        /\ \A j \in DOMAIN scales : scales[j].tick <= tick => j <= i

RECURSIVE TickToTime(_, _)
(* _update_tick_to_time: entry `tick` of the tick-to-time array, piecewise   *)
(* linear in the tick scales                                                *)
TickToTime(scales, tick) ==
    LET i == ScaleIndexAt(scales, tick)
    IN  IF i = 1 THEN tick * scales[1].tempo_us
        ELSE TickToTime(SubSeq(scales, 1, i - 1), scales[i].tick)
             + (tick - scales[i].tick) * scales[i].tempo_us

(* PrettyMIDI.time_to_tick: searchsorted in the tick-to-time array, with an  *)
(* extrapolation at the final tick scale past its end                        *)
TimeToTick(m, t) ==
    LET len == m.max_tick + 1
        idx == Cardinality({k \in 0..m.max_tick : TickToTime(m.tick_scales, k) < t})
        final == m.tick_scales[Len(m.tick_scales)].tempo_us
    IN  IF idx = len
        THEN RoundHalfEven((len - 1) * final + (t - TickToTime(m.tick_scales, len - 1)), final)
        ELSE IF idx > 0 /\ Abs(t - TickToTime(m.tick_scales, idx - 1))
                             < Abs(t - TickToTime(m.tick_scales, idx))
        THEN idx - 1
        ELSE idx

(* pretty_midi.containers.TimeSignature: the constructor's checks *)
TimeSignatureValid(numerator, denominator, time) ==
    numerator > 0 /\ denominator > 0 /\ time >= 0

(* pretty_midi.Note(velocity, pitch, start, end) *)
Note(velocity, pitch, start, end) ==
    [velocity |-> velocity, pitch |-> pitch, start |-> start, end |-> end]

(* pretty_midi.Instrument(program, is_drum) *)
Instrument(program, is_drum) == [program |-> program, is_drum |-> is_drum, notes |-> <<>>]

(* pretty_midi.containers.TimeSignature(numerator, denominator, time) *)
TimeSignature(numerator, denominator, time) ==
    [numerator |-> numerator, denominator |-> denominator, time |-> time]

(* ------------------------------------------------------------------ *)
(* generate_midi: the Score built from the request                      *)
(* ------------------------------------------------------------------ *)
NoteKeys == {"start", "duration", "pitch", "velocity"}

TimeLess(a, b) == a["time"] < b["time"]

(* tempo_changes.sort(key=lambda x: x["time"]) *)
SortTempoChanges(tcs) == SortBy(TimeLess, tcs)

(* the request's tempo changes put in place of the object's tick scales *)
SetTempoChangesApplied(m, sorted) ==
    [m EXCEPT !.tick_scales =
        [i \in DOMAIN sorted |->
            [tick |-> TimeToTick(m, TU(sorted[i]["time"], m.resolution)),
             tempo_us |-> IF sorted[i]["tempo"] > 0 THEN 60000000 \div sorted[i]["tempo"] ELSE 0]]]

(* midi._tempo_changes = (np.array(times), np.array(tempos)): the attribute  *)
(* is new to the object; pretty_midi reads its tempo map from _tick_scales   *)
SetTempoChanges(m, sorted) ==
    [m EXCEPT !.tempo_changes_attr =
        <<[i \in DOMAIN sorted |-> sorted[i]["time"]],
          [i \in DOMAIN sorted |-> sorted[i]["tempo"]]>>]

(* one entry of data["time_signatures"] can be made a TimeSignature *)
TimeSigEntryOk(ts) ==
    /\ HasKeys(ts, {"numerator", "denominator", "time"})
    /\ TimeSignatureValid(ts["numerator"], ts["denominator"], ts["time"])

(* the entries before the first one that raises *)
GoodPrefix(s, Ok(_)) ==
    IF \A i \in DOMAIN s : Ok(s[i]) THEN Len(s)
    ELSE (CHOOSE i \in DOMAIN s : ~Ok(s[i]) /\ \A j \in 1..(i - 1) : Ok(s[j])) - 1

NoteEntryOk(nd) == HasKeys(nd, NoteKeys)

(* lines 134-143 and 151-160: one note of the request *)
BuildNote(nd, res) ==
    Note(nd["velocity"], nd["pitch"], TU(nd["start"], res),
         TU(nd["start"], res) + TU(nd["duration"], res))

BuildNotes(nds, res) == [i \in DOMAIN nds |-> BuildNote(nds[i], res)]

(* lines 128-145: one instrument of data["instruments"] *)
BuildInstrument(inst, res) ==
    [Instrument(Get(inst, "program", DefaultProgram), Get(inst, "is_drum", FALSE))
        EXCEPT !.notes = BuildNotes(Get(inst, "notes", <<>>), res)]

InstrumentEntryOk(inst) ==
    \A i \in DOMAIN Get(inst, "notes", <<>>) : NoteEntryOk(inst["notes"][i])

(* the notes put at the front of the list instead of its end *)
BuildDefaultInstrumentReversed(nds, res) ==
    [Instrument(DefaultProgram, FALSE) EXCEPT
        !.notes = [i \in DOMAIN nds |-> BuildNote(nds[Len(nds) + 1 - i], res)]]

(* lines 149-162: the default instrument of a flat "notes" list *)
BuildDefaultInstrument(nds, res) ==
    [Instrument(DefaultProgram, FALSE) EXCEPT !.notes = BuildNotes(nds, res)]

(* lines 103-109: what the tempo changes of the request raise ("" if nothing) *)
TempoError(d) ==
    IF "tempo_changes" \in DOMAIN d /\ d["tempo_changes"] # <<>>
    THEN IF \E i \in DOMAIN d["tempo_changes"] : "time" \notin DOMAIN d["tempo_changes"][i]
         THEN "'time'"
         ELSE IF \E i \in DOMAIN d["tempo_changes"] : "tempo" \notin DOMAIN d["tempo_changes"][i]
         THEN "'tempo'"
         ELSE ""
    ELSE ""

(* line 107: the request's own list is sorted in place *)
TempoSorted(d) ==
    IF /\ "tempo_changes" \in DOMAIN d
       /\ \A i \in DOMAIN d["tempo_changes"] : "time" \in DOMAIN d["tempo_changes"][i]
    THEN [d EXCEPT !["tempo_changes"] = SortTempoChanges(d["tempo_changes"])]
    ELSE d

(* lines 103-110 *)
WithTempoChanges(m, d) ==
    IF "tempo_changes" \in DOMAIN d /\ d["tempo_changes"] # <<>>
    THEN SetTempoChanges(m, SortTempoChanges(d["tempo_changes"]))
    ELSE m

(* lines 113-120: the first bad entry raises *)
TimeSigError(d) ==
    IF \A i \in DOMAIN Get(d, "time_signatures", <<>>) : TimeSigEntryOk(d["time_signatures"][i])
    THEN ""
    ELSE "not a valid time signature"

(* lines 113-120: the entries before the first bad one are appended *)
WithTimeSignatures(m, d) ==
    LET tss == Get(d, "time_signatures", <<>>)
    IN  [m EXCEPT !.time_signature_changes =
            [i \in 1..GoodPrefix(tss, TimeSigEntryOk) |->
                TimeSignature(tss[i]["numerator"], tss[i]["denominator"],
                              TU(tss[i]["time"], m.resolution))]]

(* lines 124-162: a note without one of its four keys raises *)
InstrumentsError(d) ==
    IF "instruments" \in DOMAIN d
    THEN IF \A i \in DOMAIN d["instruments"] : InstrumentEntryOk(d["instruments"][i])
         THEN "" ELSE "missing note field"
    ELSE IF "notes" \in DOMAIN d
    THEN IF \A i \in DOMAIN d["notes"] : NoteEntryOk(d["notes"][i])
         THEN "" ELSE "missing note field"
    ELSE ""

(* lines 124-162: "instruments" first, a flat "notes" list only without it;  *)
(* the instruments before one that raises are appended                       *)
WithInstruments(m, d) ==
    IF "instruments" \in DOMAIN d
    THEN [m EXCEPT !.instruments =
            [i \in 1..GoodPrefix(d["instruments"], InstrumentEntryOk) |->
                BuildInstrument(d["instruments"][i], m.resolution)]]
    ELSE IF "notes" \in DOMAIN d /\ InstrumentsError(d) = ""
    THEN [m EXCEPT !.instruments = <<BuildDefaultInstrument(d["notes"], m.resolution)>>]
    ELSE m

(* ------------------------------------------------------------------ *)
(* PrettyMIDI.write: the mido file built from the object                *)
(* ------------------------------------------------------------------ *)
NoMid == [ticks_per_beat |-> 0, tracks |-> <<>>]

(* channels = list(range(16)); channels.remove(9) *)
ChannelList == <<0, 1, 2, 3, 4, 5, 6, 7, 8, 10, 11, 12, 13, 14, 15>>

(* the channel taken from the list also for a drum instrument *)
InstrumentChannelIgnoringDrum(inst, n) == (n % 16)

(* the channel of instrument number n (from 0) *)
InstrumentChannel(inst, n) ==
    IF inst.is_drum THEN DrumChannel ELSE ChannelList[(n % Len(ChannelList)) + 1]

(* event_compare's secondary_sort *)
SecondarySort(e) ==
    CASE e.type = "set_tempo" -> 1 * 65536
      [] e.type = "time_signature" -> 2 * 65536
      [] e.type = "program_change" -> 6 * 65536
      [] e.type = "note_off" -> 9 * 65536 + e.note * 256
      [] e.type = "note_on" -> 10 * 65536 + e.note * 256 + e.velocity
      [] OTHER -> 11 * 65536

EventLess(a, b) ==
    IF a.time = b.time THEN SecondarySort(a) < SecondarySort(b) ELSE a.time < b.time

(* a default 4/4 only if no time signature is at time 0 *)
AddDefaultTimeSignature(m) ==
    IF m.time_signature_changes # <<>>
    THEN \A i \in DOMAIN m.time_signature_changes : m.time_signature_changes[i].time > 0
    ELSE TRUE

(* the messages of track 0, in the order write() builds them *)
TimingMessages(m) ==
    (IF AddDefaultTimeSignature(m) THEN <<TimeSignatureMsg(0, 4, 4)>> ELSE <<>>)
    \o [i \in DOMAIN m.tick_scales |->
            SetTempoMsg(m.tick_scales[i].tick, m.tick_scales[i].tempo_us)]
    \o [i \in DOMAIN m.time_signature_changes |->
            TimeSignatureMsg(TimeToTick(m, m.time_signature_changes[i].time),
                             m.time_signature_changes[i].numerator,
                             m.time_signature_changes[i].denominator)]

(* the messages of one instrument's track: a program change, then a note-on  *)
(* and a note-on of velocity 0 for each note                                 *)
InstrumentMessages(m, inst, n) ==
    LET ch == InstrumentChannel(inst, n)
    IN  <<ProgramChangeMsg(0, ch, inst.program)>>
        \o [k \in 1..(2 * Len(inst.notes)) |->
              LET note == inst.notes[(k + 1) \div 2]
              IN  IF k % 2 = 1
                  THEN NoteOnMsg(TimeToTick(m, note.start), ch, note.pitch, note.velocity)
                  ELSE NoteOnMsg(TimeToTick(m, note.end), ch, note.pitch, 0)]

(* a note-on directly followed by its own note-off at the same tick: the     *)
(* note-off is put first                                                     *)
SwapCondition(e1, e2) ==
    /\ e1.time = e2.time
    /\ e1.type = "note_on" /\ e2.type = "note_on"
    /\ e1.note = e2.note
    /\ e1.velocity # 0 /\ e2.velocity = 0

SwapPass(track) ==
    [k \in DOMAIN track |->
        IF k < Len(track) /\ SwapCondition(track[k], track[k + 1]) THEN track[k + 1]
        ELSE IF k > 1 /\ SwapCondition(track[k - 1], track[k]) THEN track[k - 1]
        ELSE track[k]]

WithEndOfTrack(track) == Append(track, EndOfTrackMsg(track[Len(track)].time + 1))

(* ticks from absolute to relative *)
ToDelta(track) ==
    [k \in DOMAIN track |->
        [track[k] EXCEPT !.time = track[k].time - (IF k = 1 THEN 0 ELSE track[k - 1].time)]]

(* ticks from relative to absolute *)
ToAbsolute(track) ==
    [k \in DOMAIN track |->
        [track[k] EXCEPT !.time = SumTo([j \in DOMAIN track |-> track[j].time], k)]]

(* every message write() constructs passes mido's checks *)
WriteValid(m) ==
    /\ \A i \in DOMAIN TimingMessages(m) : MsgValid(TimingMessages(m)[i])
    /\ \A n \in DOMAIN m.instruments :
          \A i \in DOMAIN InstrumentMessages(m, m.instruments[n], n - 1) :
              MsgValid(InstrumentMessages(m, m.instruments[n], n - 1)[i])

(* the mido.MidiFile handed to save() *)
WriteFile(m) ==
    [ticks_per_beat |-> m.resolution,
     tracks |->
        <<ToDelta(WithEndOfTrack(SortBy(EventLess, TimingMessages(m))))>>
        \o [n \in DOMAIN m.instruments |->
              ToDelta(WithEndOfTrack(SwapPass(
                  SortBy(EventLess, InstrumentMessages(m, m.instruments[n], n - 1)))))]]

(* mido's save: a header chunk, then one chunk per track *)
HeaderChunk(f) ==
    [name |-> "MThd", format |-> 1, ntracks |-> Len(f.tracks),
     division |-> f.ticks_per_beat, events |-> <<>>]

TrackChunk(track) ==
    [name |-> "MTrk", format |-> 0, ntracks |-> 0, division |-> 0, events |-> track]

FileBytes(f) == <<HeaderChunk(f)>> \o [k \in DOMAIN f.tracks |-> TrackChunk(f.tracks[k])]

(* ------------------------------------------------------------------ *)
(* base64                                                               *)
(* ------------------------------------------------------------------ *)
(* a base64 text: empty or not, correctly padded or not, and its bytes *)
B64Encode(bytes) == [empty |-> bytes = <<>>, padded |-> TRUE, bytes |-> bytes]

B64DecodeOk(text) == text.padded

B64Decode(text) == text.bytes

(* ------------------------------------------------------------------ *)
(* PrettyMIDI(file): the object loaded from the bytes of a file         *)
(* ------------------------------------------------------------------ *)
MaxTickAllowed == 10000000

(* mido.MidiFile(file=...): an MThd chunk, then the MTrk chunks it counts *)
ParseOk(bytes) ==
    /\ Len(bytes) >= 1
    /\ bytes[1].name = "MThd"
    /\ Len(bytes) >= 1 + bytes[1].ntracks
    /\ \A k \in 2..(1 + bytes[1].ntracks) : bytes[k].name = "MTrk"

(* the parsed file, its ticks made absolute (the first loop of __init__) *)
ParseFile(bytes) ==
    [ticks_per_beat |-> bytes[1].division,
     tracks |-> [k \in 1..bytes[1].ntracks |-> ToAbsolute(bytes[k + 1].events)]]

RECURSIVE LoadTempoChanges(_, _)
(* _load_tempo_changes: 120 BPM at tick 0, replaced by a set_tempo at tick 0, *)
(* extended by a later set_tempo of another tempo                            *)
LoadTempoChanges(events, scales) ==
    IF events = <<>> THEN scales
    ELSE LET e == Head(events)
         IN  LoadTempoChanges(Tail(events),
                IF e.type # "set_tempo" THEN scales
                ELSE IF e.time = 0 THEN <<[tick |-> 0, tempo_us |-> e.tempo]>>
                ELSE IF e.tempo # scales[Len(scales)].tempo_us
                THEN Append(scales, [tick |-> e.time, tempo_us |-> e.tempo])
                ELSE scales)

SetMax(S) == CHOOSE x \in S : \A y \in S : y <= x

(* max tick over all tracks, plus one *)
FileMaxTick(f) ==
    SetMax(UNION {{f.tracks[k][i].time : i \in DOMAIN f.tracks[k]} : k \in DOMAIN f.tracks}) + 1

(* what makes PrettyMIDI(file) raise before the instruments are loaded *)
LoadOk(f) ==
    /\ f.tracks # <<>>
    /\ \A k \in DOMAIN f.tracks : f.tracks[k] # <<>>
    /\ f.ticks_per_beat > 0
    /\ \A i \in DOMAIN f.tracks[1] :
          f.tracks[1][i].type = "set_tempo" => f.tracks[1][i].tempo # 0
    /\ FileMaxTick(f) <= MaxTickAllowed
    /\ \A i \in DOMAIN f.tracks[1] :
          f.tracks[1][i].type = "time_signature" =>
              TimeSignatureValid(f.tracks[1][i].numerator, f.tracks[1][i].denominator, 0)

FileTickScales(f) ==
    LoadTempoChanges(f.tracks[1], <<[tick |-> 0, tempo_us |-> DefaultTempoUs]>>)

(* _load_metadata: the time signatures of track 0 *)
LoadTimeSignatures(f, scales) ==
    LET IsTs(e) == e.type = "time_signature"
        evs == SelectSeq(f.tracks[1], IsTs)
    IN  [i \in DOMAIN evs |->
            TimeSignature(evs[i].numerator, evs[i].denominator,
                          TickToTime(scales, evs[i].time))]

(* __get_instrument(program, channel, track, create_new=1): the index of the *)
(* instrument in the ordered instrument map, which gets a new one at its end *)
(* when it has none for the key                                              *)
InstrumentIndex(imap, program, channel, track) ==
    IF \E i \in DOMAIN imap :
          imap[i].program = program /\ imap[i].channel = channel /\ imap[i].track = track
    THEN CHOOSE i \in DOMAIN imap :
          imap[i].program = program /\ imap[i].channel = channel /\ imap[i].track = track
    ELSE Len(imap) + 1

WithInstrument(imap, program, channel, track) ==
    IF InstrumentIndex(imap, program, channel, track) <= Len(imap) THEN imap
    ELSE Append(imap, [program |-> program, channel |-> channel, track |-> track,
                       is_drum |-> (channel = DrumChannel), notes |-> <<>>])

(* one event of a track in _load_instruments; st holds last_note_on (open),  *)
(* current_instrument (current) and instrument_map (imap)                    *)
LoadEvent(st, e, track, scales) ==
    LET IsKey(o) == o.channel = e.channel /\ o.note = e.note
        NotKey(o) == ~IsKey(o)
        ToClose(o) == IsKey(o) /\ o.start # e.time
        ToKeep(o) == IsKey(o) /\ o.start = e.time
        KeepOrOther(o) == NotKey(o) \/ ToKeep(o)
        closing == SelectSeq(st.open, ToClose)
        keeping == SelectSeq(st.open, ToKeep)
        program == st.current[e.channel]
        idx == InstrumentIndex(st.imap, program, e.channel, track)
        made == WithInstrument(st.imap, program, e.channel, track)
        closed == [i \in DOMAIN closing |->
                      Note(closing[i].velocity, e.note,
                           TickToTime(scales, closing[i].start),
                           TickToTime(scales, e.time))]
    IN  IF e.type = "program_change"
        THEN [st EXCEPT !.current[e.channel] = e.program]
        ELSE IF e.type = "note_on" /\ e.velocity > 0
        THEN [st EXCEPT !.open = Append(st.open,
                 [channel |-> e.channel, note |-> e.note,
                  start |-> e.time, velocity |-> e.velocity])]
        ELSE IF e.type = "note_off" \/ (e.type = "note_on" /\ e.velocity = 0)
        THEN IF closing = <<>> /\ keeping = <<>> THEN st
             ELSE [st EXCEPT
                     !.imap = IF closing = <<>> THEN st.imap
                              ELSE [made EXCEPT ![idx].notes = made[idx].notes \o closed],
                     !.open = IF closing # <<>> /\ keeping # <<>>
                              THEN SelectSeq(st.open, KeepOrOther)
                              ELSE SelectSeq(st.open, NotKey)]
        ELSE st

RECURSIVE LoadTrack(_, _, _, _)
LoadTrack(st, events, track, scales) ==
    IF events = <<>> THEN st
    ELSE LoadTrack(LoadEvent(st, Head(events), track, scales), Tail(events), track, scales)

RECURSIVE LoadInstrumentsFrom(_, _, _, _)
(* the tracks in order, each with a fresh last_note_on and current_instrument *)
LoadInstrumentsFrom(f, k, imap, scales) ==
    IF k > Len(f.tracks) THEN imap
    ELSE LoadInstrumentsFrom(f, k + 1,
            LoadTrack([open |-> <<>>, current |-> [c \in 0..15 |-> 0], imap |-> imap],
                      f.tracks[k], k - 1, scales).imap,
            scales)

(* _load_instruments: self.instruments = the values of the instrument map *)
LoadInstruments(f, scales) ==
    LET imap == LoadInstrumentsFrom(f, 1, <<>>, scales)
    IN  [i \in DOMAIN imap |->
            [program |-> imap[i].program, is_drum |-> imap[i].is_drum,
             notes |-> imap[i].notes]]

(* PrettyMIDI(io.BytesIO(midi_bytes)) *)
LoadPrettyMIDI(f) ==
    LET scales == FileTickScales(f)
    IN  [NoMidi EXCEPT
            !.resolution = f.ticks_per_beat,
            !.tick_scales = scales,
            !.max_tick = FileMaxTick(f),
            !.time_signature_changes = LoadTimeSignatures(f, scales),
            !.instruments = LoadInstruments(f, scales)]

(* ------------------------------------------------------------------ *)
(* convert_midi: the JSON built from the loaded object                  *)
(* ------------------------------------------------------------------ *)

(* round(t, 3) of a time of an object of resolution res, in milliseconds *)
Round3(t, res) == RoundHalfEven(t, res * 1000)

(* round(60 / (tick_scale * resolution), 3), in thousandths of a BPM *)
TempoMilliBpm(us) ==
    (60000000 \div us) * 1000 + RoundHalfEven((60000000 % us) * 1000, us)

(* lines 36-42 *)
NoteJson(note, res) ==
    [start |-> Round3(note.start, res),
     duration |-> Round3(note.end - note.start, res),
     pitch |-> note.pitch,
     velocity |-> note.velocity]

(* line 49 *)
ReportedChannel(instrument) == IF instrument.is_drum THEN DrumChannel ELSE DefaultChannel

(* lines 43-51 *)
InstrumentJson(instrument, idx, res) ==
    [id |-> idx,
     program |-> instrument.program,
     is_drum |-> instrument.is_drum,
     channel |-> ReportedChannel(instrument),
     notes |-> [i \in DOMAIN instrument.notes |-> NoteJson(instrument.notes[i], res)]]

(* lines 54-60: get_tempo_changes, one entry per tick scale *)
TempoChangesJson(m) ==
    [i \in DOMAIN m.tick_scales |->
        [time |-> Round3(TickToTime(m.tick_scales, m.tick_scales[i].tick), m.resolution),
         tempo |-> TempoMilliBpm(m.tick_scales[i].tempo_us)]]

(* lines 63-69 *)
TimeSignaturesJson(m) ==
    [i \in DOMAIN m.time_signature_changes |->
        [time |-> Round3(m.time_signature_changes[i].time, m.resolution),
         numerator |-> m.time_signature_changes[i].numerator,
         denominator |-> m.time_signature_changes[i].denominator]]

(* lines 71-75 *)
ConvertBody(m) ==
    [instruments |-> [i \in DOMAIN m.instruments |->
                         InstrumentJson(m.instruments[i], i - 1, m.resolution)],
     tempo_changes |-> TempoChangesJson(m),
     time_signatures |-> TimeSignaturesJson(m)]

(* ------------------------------------------------------------------ *)
(* The handlers, one request per slot                                   *)
(* ------------------------------------------------------------------ *)

(* the except clause: JSONResponse({"error": str(e)}, status_code=400) *)
Fail(r, msg) ==
    /\ resp' = [resp EXCEPT ![r] = ErrorResponse(msg)]
    /\ pc' = [pc EXCEPT ![r] = "done"]

Goto(r, label) ==
    /\ pc' = [pc EXCEPT ![r] = label]
    /\ UNCHANGED resp

(* line 98: midi = pretty_midi.PrettyMIDI() *)
GenCreate(r) ==
    /\ pc[r] = "g_create"
    /\ midi' = [midi EXCEPT ![r] = NewPrettyMIDI]
    /\ Goto(r, "g_tempo")
    /\ UNCHANGED <<endpoint, data, mid, buffer>>

(* lines 103-110: the tempo changes of the request *)
GenTempo(r) ==
    /\ pc[r] = "g_tempo"
    /\ data' = [data EXCEPT ![r] = TempoSorted(data[r])]
    /\ IF TempoError(data[r]) # ""
       THEN Fail(r, TempoError(data[r])) /\ UNCHANGED midi
       ELSE /\ midi' = [midi EXCEPT ![r] = WithTempoChanges(midi[r], data[r])]
            /\ Goto(r, "g_timesig")
    /\ UNCHANGED <<endpoint, mid, buffer>>

(* lines 113-120: the time signatures of the request, in request order *)
GenTimeSigs(r) ==
    /\ pc[r] = "g_timesig"
    /\ midi' = [midi EXCEPT ![r] = WithTimeSignatures(midi[r], data[r])]
    /\ IF TimeSigError(data[r]) # ""
       THEN Fail(r, TimeSigError(data[r]))
       ELSE Goto(r, "g_instruments")
    /\ UNCHANGED <<endpoint, data, mid, buffer>>

(* lines 124-162: the instruments of the request, or the default instrument *)
(* of a flat "notes" list                                                   *)
GenInstruments(r) ==
    /\ pc[r] = "g_instruments"
    /\ midi' = [midi EXCEPT ![r] = WithInstruments(midi[r], data[r])]
    /\ IF InstrumentsError(data[r]) # ""
       THEN Fail(r, InstrumentsError(data[r]))
       ELSE Goto(r, "g_write")
    /\ UNCHANGED <<endpoint, data, mid, buffer>>

(* one buffer of the module, used by every request *)
SharedBuffer(r) == 1

(* line 165: buffer = io.BytesIO(), and line 30: io.BytesIO(midi_bytes): the *)
(* buffer of a request is its own                                           *)
BufferOf(r) == r

(* lines 165-166: buffer = io.BytesIO(); midi.write(buffer), up to save():  *)
(* the messages are built, and checked by mido as they are                  *)
GenWrite(r) ==
    /\ pc[r] = "g_write"
    /\ IF WriteValid(midi[r])
       THEN mid' = [mid EXCEPT ![r] = WriteFile(midi[r])] /\ Goto(r, "g_save_header")
       ELSE Fail(r, "value out of range") /\ UNCHANGED mid
    /\ UNCHANGED <<endpoint, data, midi, buffer>>

(* line 166, mido's save: the header chunk *)
GenSaveHeader(r) ==
    /\ pc[r] = "g_save_header"
    /\ buffer' = [buffer EXCEPT ![BufferOf(r)] = <<HeaderChunk(mid[r])>>]
    /\ Goto(r, "g_save_tracks")
    /\ UNCHANGED <<endpoint, data, midi, mid>>

(* line 166, mido's save: the next track chunk *)
GenSaveTrack(r) ==
    /\ pc[r] = "g_save_tracks"
    /\ LET k == Len(buffer[BufferOf(r)])
       IN  /\ buffer' = [buffer EXCEPT
                  ![BufferOf(r)] = Append(buffer[BufferOf(r)], TrackChunk(mid[r].tracks[k]))]
           /\ Goto(r, IF k = Len(mid[r].tracks) THEN "g_respond" ELSE "g_save_tracks")
    /\ UNCHANGED <<endpoint, data, midi, mid>>

(* lines 167-170 *)
GenRespond(r) ==
    /\ pc[r] = "g_respond"
    /\ resp' = [resp EXCEPT ![r] = OkResponse([midi_base64 |-> B64Encode(buffer[BufferOf(r)])])]
    /\ pc' = [pc EXCEPT ![r] = "done"]
    /\ UNCHANGED <<endpoint, data, midi, mid, buffer>>

(* lines 23-25 *)
ConvCheck(r) ==
    /\ pc[r] = "c_check"
    /\ IF "midi_base64" \notin DOMAIN data[r] \/ data[r]["midi_base64"].empty
       THEN Fail(r, "No base64 MIDI provided.")
       ELSE Goto(r, "c_decode")
    /\ UNCHANGED <<endpoint, data, midi, mid, buffer>>

(* line 29: midi_bytes = base64.b64decode(midi_b64) *)
ConvDecode(r) ==
    /\ pc[r] = "c_decode"
    /\ IF B64DecodeOk(data[r]["midi_base64"])
       THEN /\ buffer' = [buffer EXCEPT ![BufferOf(r)] = B64Decode(data[r]["midi_base64"])]
            /\ Goto(r, "c_parse")
       ELSE Fail(r, "Incorrect padding") /\ UNCHANGED buffer
    /\ UNCHANGED <<endpoint, data, midi, mid>>

(* line 30: midi_data = pretty_midi.PrettyMIDI(io.BytesIO(midi_bytes)) *)
ConvParse(r) ==
    /\ pc[r] = "c_parse"
    /\ IF ~ParseOk(buffer[BufferOf(r)])
       THEN Fail(r, "MThd not found. Probably not a MIDI file") /\ UNCHANGED <<mid, midi>>
       ELSE /\ mid' = [mid EXCEPT ![r] = ParseFile(buffer[BufferOf(r)])]
            /\ IF LoadOk(ParseFile(buffer[BufferOf(r)]))
               THEN /\ midi' = [midi EXCEPT ![r] = LoadPrettyMIDI(ParseFile(buffer[BufferOf(r)]))]
                    /\ Goto(r, "c_respond")
               ELSE Fail(r, "invalid MIDI data") /\ UNCHANGED midi
    /\ UNCHANGED <<endpoint, data, buffer>>

(* lines 33-77 *)
ConvRespond(r) ==
    /\ pc[r] = "c_respond"
    /\ resp' = [resp EXCEPT ![r] = OkResponse(ConvertBody(midi[r]))]
    /\ pc' = [pc EXCEPT ![r] = "done"]
    /\ UNCHANGED <<endpoint, data, midi, mid, buffer>>

(* a client posts the midi_base64 of a generate-midi response to            *)
(* convert-midi, as a new request                                           *)
Feed(src, dst) ==
    /\ src # dst
    /\ endpoint[src] = "/generate-midi" /\ pc[src] = "done" /\ resp[src].status = 200
    /\ endpoint[dst] = "none"
    /\ endpoint' = [endpoint EXCEPT ![dst] = "/convert-midi"]
    /\ data' = [data EXCEPT ![dst] = [midi_base64 |-> resp[src].body.midi_base64]]
    /\ pc' = [pc EXCEPT ![dst] = "c_check"]
    /\ UNCHANGED <<midi, mid, buffer, resp>>

(* generate_midi as a function of its request: lines 97-172 run alone *)
GenerateAlone(d) ==
    LET m == WithInstruments(WithTimeSignatures(WithTempoChanges(NewPrettyMIDI, d), d), d)
    IN  IF TempoError(d) # "" THEN ErrorResponse(TempoError(d))
        ELSE IF TimeSigError(d) # "" THEN ErrorResponse(TimeSigError(d))
        ELSE IF InstrumentsError(d) # "" THEN ErrorResponse(InstrumentsError(d))
        ELSE IF ~WriteValid(m) THEN ErrorResponse("value out of range")
        ELSE OkResponse([midi_base64 |-> B64Encode(FileBytes(WriteFile(m)))])

(* convert_midi as a function of its request: lines 23-79 run alone *)
ConvertAlone(d) ==
    IF "midi_base64" \notin DOMAIN d \/ d["midi_base64"].empty
    THEN ErrorResponse("No base64 MIDI provided.")
    ELSE IF ~B64DecodeOk(d["midi_base64"]) THEN ErrorResponse("Incorrect padding")
    ELSE IF ~ParseOk(B64Decode(d["midi_base64"]))
    THEN ErrorResponse("MThd not found. Probably not a MIDI file")
    ELSE IF ~LoadOk(ParseFile(B64Decode(d["midi_base64"]))) THEN ErrorResponse("invalid MIDI data")
    ELSE OkResponse(ConvertBody(LoadPrettyMIDI(ParseFile(B64Decode(d["midi_base64"])))))

(* ------------------------------------------------------------------ *)
(* The requests the model draws                                         *)
(* ------------------------------------------------------------------ *)
Opt(key, present, value) == IF present THEN key :> value ELSE EmptyDict

NoteA == [start |-> 0, duration |-> 500, pitch |-> 60, velocity |-> 100]

NoteB == [start |-> 1000, duration |-> 250, pitch |-> 64, velocity |-> 90]

NoteAt(s) == [start |-> s, duration |-> 500, pitch |-> 60, velocity |-> 100]

TempoEntries ==
    {[time |-> 0, tempo |-> 120], [time |-> 0, tempo |-> 60],
     [time |-> 2000, tempo |-> 60], [time |-> 1000, tempo |-> 0]}

TimeSigEntries ==
    {[time |-> 0, numerator |-> 3, denominator |-> 4],
     [time |-> 1000, numerator |-> 6, denominator |-> 8],
     [time |-> 1000, numerator |-> 0, denominator |-> 4],
     [time |-> 0, numerator |-> 4, denominator |-> 3]}

TempoLists == SeqsUpTo(TempoEntries, MaxTempoChanges)

TimeSigLists == SeqsUpTo(TimeSigEntries, MaxTimeSigs)

(* requests that vary the tempo changes, with one note *)
TempoRequests ==
    {Opt("tempo_changes", hasTc, tcs) @@ [notes |-> <<NoteAt(s)>>] :
        hasTc \in BOOLEAN, tcs \in TempoLists, s \in {0, 1000, 3000}}

(* requests that vary the time signatures *)
TimeSigRequests ==
    {Opt("time_signatures", hasTs, tss) @@ Opt("tempo_changes", hasTc, <<[time |-> 0, tempo |-> 60]>>)
        @@ [notes |-> <<NoteA>>] :
        hasTs \in BOOLEAN, tss \in TimeSigLists, hasTc \in BOOLEAN}

(* requests that vary the fields of one note, inside and outside its domain *)
NoteRequests ==
    {[notes |-> <<[start |-> s, duration |-> d, pitch |-> p, velocity |-> v]>>] :
        s \in {-1000, 0}, d \in {-500, 0, 1, 500}, p \in {60, 128}, v \in {100, 128}}
    \cup {[notes |-> <<[k \in NoteKeys \ {missing} |-> NoteA[k]]>>] : missing \in NoteKeys}
    \cup {[instruments |-> <<[program |-> p, notes |-> <<NoteA>>]>>] : p \in {-1, 24, 128}}
    \cup {[tempo_changes |-> <<[time |-> 0]>>], [tempo_changes |-> <<[tempo |-> 120]>>],
          [time_signatures |-> <<[time |-> -1000, numerator |-> 4, denominator |-> 4]>>],
          [time_signatures |-> <<[numerator |-> 4, denominator |-> 4]>>]}

InstrumentDicts ==
    {[program |-> 0, is_drum |-> FALSE, channel |-> 3, notes |-> ns] :
        ns \in SeqsUpTo({NoteA}, MaxNotes)}
    \cup {[program |-> 24, is_drum |-> FALSE, channel |-> 9, notes |-> ns] :
        ns \in SeqsUpTo({NoteA}, MaxNotes)}
    \cup {[program |-> 0, is_drum |-> TRUE, channel |-> 3, notes |-> ns] :
        ns \in SeqsUpTo({NoteA}, MaxNotes)}
    \cup {[program |-> 24, is_drum |-> TRUE, channel |-> 9, notes |-> ns] :
        ns \in SeqsUpTo({NoteA}, MaxNotes)}
    \cup {EmptyDict}

(* requests that vary the instruments and the flat notes *)
InstrumentRequests ==
    {Opt("instruments", hasInst, insts) @@ Opt("notes", hasNotes, ns) :
        hasInst \in BOOLEAN, insts \in SeqsUpTo(InstrumentDicts, MaxInstruments),
        hasNotes \in BOOLEAN, ns \in {<<NoteB>>}}
    \cup {[notes |-> ns] : ns \in SeqsUpTo({NoteA, NoteB}, MaxNotes)}
    \cup {[tempo_changes |-> <<[time |-> 0, tempo |-> 60]>>,
           time_signatures |-> <<[time |-> 0, numerator |-> 3, denominator |-> 4]>>]}

GenerateRequests == TempoRequests \cup TimeSigRequests \cup NoteRequests \cup InstrumentRequests

(* a one-track file: an optional set_tempo, a program change, one note of    *)
(* `len` ticks closed by a note-off or by a note-on of velocity 0            *)
HandTrack(us, ch, program, start, len, off) ==
    (IF us = 0 THEN <<>> ELSE <<SetTempoMsg(0, us)>>)
    \o <<ProgramChangeMsg(0, ch, program),
         NoteOnMsg(start, ch, 60, 100),
         IF off THEN NoteOffMsg(len, ch, 60) ELSE NoteOnMsg(len, ch, 60, 0),
         EndOfTrackMsg(1)>>

HandFile(res, us, ch, program, start, len, off) ==
    <<[name |-> "MThd", format |-> 0, ntracks |-> 1, division |-> res, events |-> <<>>],
      TrackChunk(HandTrack(us, ch, program, start, len, off))>>

HandFiles ==
    {HandFile(res, us, ch, 5, start, len, off) :
        res \in {220, 960}, us \in {0, 250000}, ch \in {0, 9, 15},
        start \in {0, 3}, len \in {0, 1, 2, 480}, off \in BOOLEAN}

(* a file with a tempo change and a time signature inside it, a file whose   *)
(* time signature has numerator 0, bytes that are no MIDI file               *)
OddFiles ==
    {<<[name |-> "MThd", format |-> 0, ntracks |-> 1, division |-> 480, events |-> <<>>],
       TrackChunk(<<TimeSignatureMsg(0, 3, 4), NoteOnMsg(0, 9, 36, 80), SetTempoMsg(480, 1000000),
                    TimeSignatureMsg(0, 6, 8), NoteOnMsg(1, 9, 36, 0), EndOfTrackMsg(1)>>)>>,
     <<[name |-> "MThd", format |-> 0, ntracks |-> 1, division |-> 480, events |-> <<>>],
       TrackChunk(<<TimeSignatureMsg(0, 0, 4), EndOfTrackMsg(1)>>)>>,
     <<[name |-> "MThd", format |-> 0, ntracks |-> 1, division |-> 480, events |-> <<>>],
       TrackChunk(<<SetTempoMsg(0, 0), EndOfTrackMsg(1)>>)>>,
     <<[name |-> "MThd", format |-> 1, ntracks |-> 2, division |-> 480, events |-> <<>>],
       TrackChunk(<<EndOfTrackMsg(1)>>)>>,
     <<[name |-> "RIFF", format |-> 0, ntracks |-> 0, division |-> 0, events |-> <<>>]>>}

ConvertRequests ==
    {EmptyDict,
     [midi_base64 |-> B64Encode(<<>>)],
     [midi_base64 |-> [empty |-> FALSE, padded |-> FALSE, bytes |-> <<>>]]}
    \cup {[midi_base64 |-> B64Encode(f)] : f \in HandFiles \cup OddFiles}

(* the requests of the runs with two requests in flight *)
ConcurrentRequests ==
    {<<"/generate-midi", [notes |-> <<NoteA>>]>>,
     <<"/generate-midi", [notes |-> <<NoteB>>, tempo_changes |-> <<[time |-> 0, tempo |-> 60]>>]>>,
     <<"/generate-midi", [notes |-> <<[NoteA EXCEPT !.pitch = 128]>>]>>,
     <<"/convert-midi", [midi_base64 |-> B64Encode(HandFile(960, 250000, 9, 5, 0, 2, TRUE))]>>,
     <<"/convert-midi", [midi_base64 |-> B64Encode(<<>>)]>>}

Requests ==
    {<<"/generate-midi", d>> : d \in GenerateRequests}
    \cup {<<"/convert-midi", d>> : d \in ConvertRequests}

StartLabel(ep) ==
    CASE ep = "/generate-midi" -> "g_create"
      [] ep = "/convert-midi" -> "c_check"
      [] OTHER -> "idle"

NoRequest == <<"none", EmptyDict>>

Init ==
    \E q1 \in Requests \cup ConcurrentRequests, q2 \in ConcurrentRequests \cup {NoRequest} :
        /\ (q2 # NoRequest => q1 \in ConcurrentRequests)
        /\ endpoint = <<q1[1], q2[1]>>
        /\ data = <<q1[2], q2[2]>>
        /\ pc = <<StartLabel(q1[1]), StartLabel(q2[1])>>
        /\ midi = <<NoMidi, NoMidi>>
        /\ mid = <<NoMid, NoMid>>
        /\ buffer = <<<<>>, <<>>>>
        /\ resp = <<NoResponse, NoResponse>>

Next ==
    \E r \in Slots :
        \/ GenCreate(r)
        \/ GenTempo(r)
        \/ GenTimeSigs(r)
        \/ GenInstruments(r)
        \/ GenWrite(r)
        \/ GenSaveHeader(r)
        \/ GenSaveTrack(r)
        \/ GenRespond(r)
        \/ ConvCheck(r)
        \/ ConvDecode(r)
        \/ ConvParse(r)
        \/ ConvRespond(r)
        \/ \E dst \in Slots : Feed(r, dst)

Spec == Init /\ [][Next]_vars

(* ------------------------------------------------------------------ *)
(* Properties                                                           *)
(* ------------------------------------------------------------------ *)
IsGenerate(r) == endpoint[r] = "/generate-midi"

IsConvert(r) == endpoint[r] = "/convert-midi"

(* the mido file of a generate request has been built *)
Written(r) == IsGenerate(r) /\ mid[r] # NoMid

(* the Score of a generate request has been built *)
ScoreBuilt(r) ==
    IsGenerate(r) /\ pc[r] \in {"g_write", "g_save_header", "g_save_tracks", "g_respond"}

(* the absolute ticks of the note-ons of a pitch and a velocity > 0 in a track *)
NoteOnTicks(track, pitch, velocity) ==
    {ToAbsolute(track)[k].time : k \in {j \in DOMAIN track :
        /\ track[j].type = "note_on"
        /\ track[j].note = pitch
        /\ track[j].velocity = velocity}}

(* a file that holds its header and every track it counts, each closed *)
CompleteFile(bytes) ==
    /\ Len(bytes) >= 2
    /\ bytes[1].name = "MThd"
    /\ Len(bytes) = 1 + bytes[1].ntracks
    /\ \A k \in 2..Len(bytes) :
          /\ bytes[k].name = "MTrk"
          /\ bytes[k].events # <<>>
          /\ bytes[k].events[Len(bytes[k].events)].type = "end_of_track"

(* a Score that holds everything of the loaded object *)
CompleteScore(body, m) ==
    /\ Len(body.instruments) = Len(m.instruments)
    /\ \A i \in DOMAIN body.instruments :
          Len(body.instruments[i].notes) = Len(m.instruments[i].notes)
    /\ Len(body.tempo_changes) = Len(m.tick_scales)
    /\ Len(body.time_signatures) = Len(m.time_signature_changes)

(* the failures of convert-midi: no or empty midi_base64, undecodable       *)
(* base64, bytes that do not parse                                          *)
ConvertFailure(r) ==
    \/ "midi_base64" \notin DOMAIN data[r]
    \/ data[r]["midi_base64"].empty
    \/ ~data[r]["midi_base64"].padded
    \/ ~ParseOk(data[r]["midi_base64"].bytes)
    \/ ~LoadOk(ParseFile(data[r]["midi_base64"].bytes))

(* the failures of generate-midi: a missing field, a failed write *)
GenerateFailure(r) ==
    \/ TempoError(data[r]) # ""
    \/ TimeSigError(data[r]) # ""
    \/ InstrumentsError(data[r]) # ""
    \/ ~WriteValid(midi[r])

(* C2: each request ends with exactly one response, either a complete       *)
(* success body or a 400 body holding only "error"; a failure at any step   *)
(* returns no partial Score, no partial byte buffer and no success status.  *)
C2_AllOrNothing ==
    \A r \in Slots :
        /\ resp[r].status \in {0, 200, 400}
        /\ (resp[r].status # 0) <=> (pc[r] = "done")
        /\ resp[r].status = 400 => DOMAIN resp[r].body = {"error"}
        /\ (resp[r].status = 200 /\ IsGenerate(r)) =>
              /\ DOMAIN resp[r].body = {"midi_base64"}
              /\ CompleteFile(resp[r].body.midi_base64.bytes)
              /\ resp[r].body.midi_base64.bytes[1].ntracks = 1 + Len(midi[r].instruments)
              /\ ~GenerateFailure(r)
        /\ (resp[r].status = 200 /\ IsConvert(r)) =>
              /\ DOMAIN resp[r].body = {"instruments", "tempo_changes", "time_signatures"}
              /\ CompleteScore(resp[r].body, midi[r])
              /\ ~ConvertFailure(r)

(* a generate request failed in write(), after its Score was built with an  *)
(* instrument in it                                                         *)
C2_Witness ==
    \E r \in Slots :
        /\ IsGenerate(r) /\ pc[r] = "done" /\ resp[r].status = 400
        /\ midi[r].instruments # <<>>
        /\ ~WriteValid(midi[r])

(* the request names no tempo change at time 0 *)
NoChangeAtZero(d) ==
    \/ "tempo_changes" \notin DOMAIN d
    \/ \A i \in DOMAIN d["tempo_changes"] :
          "time" \in DOMAIN d["tempo_changes"][i] /\ d["tempo_changes"][i]["time"] > 0

(* a time is before every tempo change the request names *)
BeforeFirstChange(d, t) ==
    \/ "tempo_changes" \notin DOMAIN d
    \/ \A i \in DOMAIN d["tempo_changes"] : t <= d["tempo_changes"][i]["time"]

(* the tick of a time in milliseconds at a constant tempo in BPM *)
TicksAt(ms, bpm, res) == RoundHalfEven(ms * bpm * res, 60000)

(* C6: the tempo map encode uses always has a tempo change at time 0; when  *)
(* the request names none there (no list, an empty list, a first entry      *)
(* after 0), it is 120 BPM, in effect from 0 up to the first named change.  *)
C6_ImplicitInitialTempo ==
    \A r \in Slots :
        (IsGenerate(r) /\ pc[r] \notin {"g_create", "g_tempo"}) =>
            /\ midi[r].tick_scales # <<>>
            /\ midi[r].tick_scales[1].tick = 0
            /\ NoChangeAtZero(data[r]) =>
                  /\ midi[r].tick_scales[1].tempo_us * 120 = 60000000
                  /\ (Written(r) /\ "notes" \in DOMAIN data[r] /\ "instruments" \notin DOMAIN data[r]) =>
                        \A i \in DOMAIN data[r]["notes"] :
                            LET nd == data[r]["notes"][i]
                            IN  (nd["start"] >= 0 /\ BeforeFirstChange(data[r], nd["start"])) =>
                                    TicksAt(nd["start"], 120, mid[r].ticks_per_beat)
                                        \in NoteOnTicks(mid[r].tracks[2], nd["pitch"], nd["velocity"])

(* a written request whose first tempo change is after 0 and after the      *)
(* start of its note                                                        *)
C6_Witness ==
    \E r \in Slots :
        /\ Written(r)
        /\ "tempo_changes" \in DOMAIN data[r] /\ data[r]["tempo_changes"] # <<>>
        /\ NoChangeAtZero(data[r])
        /\ "notes" \in DOMAIN data[r]
        /\ \E i \in DOMAIN data[r]["notes"] :
              /\ data[r]["notes"][i]["start"] > 0
              /\ BeforeFirstChange(data[r], data[r]["notes"][i]["start"])

(* the channels of the note-ons of a parsed file *)
NoteChannels(f) ==
    UNION {{f.tracks[k][i].channel : i \in {j \in DOMAIN f.tracks[k] :
                f.tracks[k][j].type = "note_on" /\ f.tracks[k][j].velocity > 0}} :
           k \in DOMAIN f.tracks}

(* C7: on encode a drum instrument is written on channel 9 whatever channel *)
(* the request asks for (and no other instrument is); on decode the         *)
(* instruments of a file whose notes are on channel 9 are reported as       *)
(* drums, an instrument is reported on channel 9 exactly when is_drum, and  *)
(* every reported channel is in 0..15.                                      *)
C7_DrumChannel ==
    \A r \in Slots :
        /\ Written(r) =>
              /\ Len(mid[r].tracks) = 1 + Len(midi[r].instruments)
              /\ \A n \in DOMAIN midi[r].instruments :
                    \A i \in DOMAIN mid[r].tracks[n + 1] :
                        LET e == mid[r].tracks[n + 1][i]
                        IN  e.type \in {"note_on", "program_change"} =>
                                /\ e.channel \in 0..15
                                /\ (e.channel = 9) <=> midi[r].instruments[n].is_drum
              /\ "instruments" \in DOMAIN data[r] =>
                    \A n \in DOMAIN data[r]["instruments"] :
                        Get(data[r]["instruments"][n], "is_drum", FALSE) =>
                            \A i \in DOMAIN mid[r].tracks[n + 1] :
                                mid[r].tracks[n + 1][i].type \in {"note_on", "program_change"}
                                    => mid[r].tracks[n + 1][i].channel = 9
        /\ (IsConvert(r) /\ resp[r].status = 200) =>
              /\ \A i \in DOMAIN resp[r].body.instruments :
                    /\ resp[r].body.instruments[i].channel \in 0..15
                    /\ (resp[r].body.instruments[i].channel = 9)
                          <=> resp[r].body.instruments[i].is_drum
              /\ NoteChannels(mid[r]) \subseteq {9} =>
                    \A i \in DOMAIN resp[r].body.instruments : resp[r].body.instruments[i].is_drum
              /\ 9 \notin NoteChannels(mid[r]) =>
                    \A i \in DOMAIN resp[r].body.instruments : ~resp[r].body.instruments[i].is_drum

(* a drum instrument that asks for channel 3 was written, its file was      *)
(* posted to convert-midi, and the response reports a drum on channel 9     *)
C7_Witness ==
    \E r, q \in Slots :
        /\ Written(r) /\ "instruments" \in DOMAIN data[r]
        /\ \E n \in DOMAIN data[r]["instruments"] :
              /\ Get(data[r]["instruments"][n], "is_drum", FALSE)
              /\ Get(data[r]["instruments"][n], "channel", 9) = 3
              /\ Get(data[r]["instruments"][n], "notes", <<>>) # <<>>
        /\ IsConvert(q) /\ resp[q].status = 200
        /\ \E i \in DOMAIN resp[q].body.instruments :
              resp[q].body.instruments[i].is_drum /\ resp[q].body.instruments[i].channel = 9

(* the object's note is the request's note *)
SameNote(note, nd, res) ==
    /\ note.pitch = nd["pitch"]
    /\ note.velocity = nd["velocity"]
    /\ note.start = TU(nd["start"], res)
    /\ note.end = TU(nd["start"] + nd["duration"], res)

SameNotes(notes, nds, res) ==
    /\ Len(notes) = Len(nds)
    /\ \A i \in DOMAIN nds : SameNote(notes[i], nds[i], res)

(* C9: a "notes" list without an "instruments" key gives exactly one        *)
(* instrument, program 0, not a drum, holding the notes in input order; an  *)
(* "instruments" key (also an empty list) gives exactly its instruments in  *)
(* input order and a "notes" key then adds nothing; with neither key the    *)
(* Score has no instrument and the request succeeds.                        *)
C9_LegacyFlatInput ==
    \A r \in Slots :
        /\ (ScoreBuilt(r) /\ "notes" \in DOMAIN data[r] /\ "instruments" \notin DOMAIN data[r]) =>
              /\ Len(midi[r].instruments) = 1
              /\ midi[r].instruments[1].program = 0
              /\ ~midi[r].instruments[1].is_drum
              /\ SameNotes(midi[r].instruments[1].notes, data[r]["notes"], midi[r].resolution)
        /\ (ScoreBuilt(r) /\ "instruments" \in DOMAIN data[r]) =>
              /\ Len(midi[r].instruments) = Len(data[r]["instruments"])
              /\ \A n \in DOMAIN data[r]["instruments"] :
                    /\ midi[r].instruments[n].program = Get(data[r]["instruments"][n], "program", 0)
                    /\ midi[r].instruments[n].is_drum = Get(data[r]["instruments"][n], "is_drum", FALSE)
                    /\ SameNotes(midi[r].instruments[n].notes,
                                 Get(data[r]["instruments"][n], "notes", <<>>), midi[r].resolution)
        /\ (IsGenerate(r) /\ "instruments" \notin DOMAIN data[r] /\ "notes" \notin DOMAIN data[r]) =>
              /\ midi[r].instruments = <<>>
              /\ (pc[r] = "done" /\ TempoError(data[r]) = "" /\ TimeSigError(data[r]) = "")
                    => resp[r].status = 200

(* a flat list of two different notes was built into the default            *)
(* instrument, and the request succeeded                                    *)
C9_Witness ==
    \E r \in Slots :
        /\ IsGenerate(r) /\ resp[r].status = 200
        /\ "notes" \in DOMAIN data[r] /\ "instruments" \notin DOMAIN data[r]
        /\ Len(data[r]["notes"]) = 2
        /\ data[r]["notes"][1] # data[r]["notes"][2]

(* the response a request gets when it runs alone *)
Alone(r) == IF IsGenerate(r) THEN GenerateAlone(data[r]) ELSE ConvertAlone(data[r])

(* a step leaves the state of every request but one as it is *)
OneRequestChanges ==
    \E r \in Slots :
        \A q \in Slots \ {r} :
            /\ endpoint'[q] = endpoint[q] /\ data'[q] = data[q] /\ pc'[q] = pc[q]
            /\ midi'[q] = midi[q] /\ mid'[q] = mid[q]
            /\ buffer'[q] = buffer[q] /\ resp'[q] = resp[q]

(* the responses agree with the requests run alone, and equal requests got   *)
(* equal responses                                                          *)
ResponsesAsAlone ==
    /\ \A r \in Slots : pc[r] = "done" => resp[r] = Alone(r)
    /\ \A r, q \in Slots :
          (pc[r] = "done" /\ pc[q] = "done" /\ endpoint[r] = endpoint[q] /\ data[r] = data[q])
              => resp[r] = resp[q]

(* C8: in every interleaving of two requests each response is the response  *)
(* the request gets alone, no step of a request changes state of the other, *)
(* and convert-midi on the same bytes twice returns identical Scores.       *)
C8_Isolated == [](ResponsesAsAlone) /\ [][OneRequestChanges]_vars

(* two requests that were in flight together are both answered, one a       *)
(* generate-midi that succeeded and one a convert-midi that succeeded       *)
C8_Witness ==
    /\ pc[1] = "done" /\ pc[2] = "done"
    /\ resp[1].status = 200 /\ resp[2].status = 200
    /\ IsGenerate(1) /\ IsConvert(2)
    /\ data[2]["midi_base64"] # resp[1].body.midi_base64

(* a note of a request with a field outside its domain *)
NoteOutOfDomain(nd) ==
    \/ Get(nd, "pitch", 0) \notin 0..127
    \/ Get(nd, "velocity", 0) \notin 0..127
    \/ Get(nd, "start", 0) < 0
    \/ Get(nd, "duration", 0) < 0

(* a generate-midi request with a field outside its domain *)
OutOfDomain(d) ==
    \/ \E i \in DOMAIN Get(d, "notes", <<>>) : NoteOutOfDomain(d["notes"][i])
    \/ \E n \in DOMAIN Get(d, "instruments", <<>>) :
          \/ Get(d["instruments"][n], "program", 0) \notin 0..127
          \/ \E i \in DOMAIN Get(d["instruments"][n], "notes", <<>>) :
                NoteOutOfDomain(d["instruments"][n]["notes"][i])
    \/ \E i \in DOMAIN Get(d, "tempo_changes", <<>>) : Get(d["tempo_changes"][i], "tempo", 120) <= 0
    \/ \E i \in DOMAIN Get(d, "time_signatures", <<>>) :
          \/ Get(d["time_signatures"][i], "numerator", 4) <= 0
          \/ ~IsPowerOfTwo(Get(d["time_signatures"][i], "denominator", 4))

(* C3: a generate-midi request with a field outside its domain fails with   *)
(* an error, before anything is written to the output buffer, and returns   *)
(* no midi_base64.                                                          *)
C3_ValidatedBeforeWrite ==
    \A r \in Slots :
        (IsGenerate(r) /\ OutOfDomain(data[r])) =>
            /\ buffer[r] = <<>>
            /\ resp[r].status # 200
            /\ "midi_base64" \notin DOMAIN resp[r].body
            /\ pc[r] = "done" => resp[r].status = 400

StrictlyAscending(times) == \A i \in 1..(Len(times) - 1) : times[i] < times[i + 1]

(* C4: in the Score generate-midi builds, the tempo-change list and the     *)
(* time-signature list are sorted by time and hold no time twice.           *)
C4_SortedUnique ==
    \A r \in Slots :
        ScoreBuilt(r) =>
            /\ midi[r].tempo_changes_attr # <<>> => StrictlyAscending(midi[r].tempo_changes_attr[1])
            /\ StrictlyAscending([i \in DOMAIN midi[r].time_signature_changes |->
                                     midi[r].time_signature_changes[i].time])

(* the request's tempo changes, with the implicit 120 BPM at time 0 when it  *)
(* names none there                                                         *)
TempoMapOf(d) ==
    LET given == SortTempoChanges(Get(d, "tempo_changes", <<>>))
    IN  IF given # <<>> /\ given[1]["time"] = 0 THEN given
        ELSE <<[time |-> 0, tempo |-> 120]>> \o given

(* a tempo map the data model allows: tempos > 0, times >= 0 and distinct *)
ValidTempoMap(d) ==
    /\ \A i \in DOMAIN Get(d, "tempo_changes", <<>>) :
          /\ HasKeys(d["tempo_changes"][i], {"time", "tempo"})
          /\ d["tempo_changes"][i]["tempo"] > 0
          /\ d["tempo_changes"][i]["time"] >= 0
    /\ \A i, j \in DOMAIN Get(d, "tempo_changes", <<>>) :
          i # j => d["tempo_changes"][i]["time"] # d["tempo_changes"][j]["time"]

(* milliseconds times BPM from time 0 to t along a tempo map *)
BeatMillis(map, t) ==
    SumTo([i \in DOMAIN map |->
              LET from == map[i]["time"]
                  to == IF i < Len(map) /\ map[i + 1]["time"] < t THEN map[i + 1]["time"] ELSE t
              IN  IF to > from THEN (to - from) * map[i]["tempo"] ELSE 0],
          Len(map))

(* the tick of a time along the request's tempo map *)
TempoMapTick(d, t, res) == RoundHalfEven(BeatMillis(TempoMapOf(d), t) * res, 60000)

(* C5: the tempo changes of the request drive the seconds-to-ticks          *)
(* conversion: a note is placed at the tick its start has along the         *)
(* request's tempo map (120 BPM, then 60 BPM from 2.0 s: a note at 3.0 s is *)
(* at tick 4 * resolution + 1 * resolution).                                *)
C5_TempoDrivesTicks ==
    \A r \in Slots :
        (/\ Written(r)
         /\ "notes" \in DOMAIN data[r] /\ "instruments" \notin DOMAIN data[r]
         /\ ValidTempoMap(data[r])) =>
            \A i \in DOMAIN data[r]["notes"] :
                LET nd == data[r]["notes"][i]
                IN  nd["start"] >= 0 =>
                        TempoMapTick(data[r], nd["start"], mid[r].ticks_per_beat)
                            \in NoteOnTicks(mid[r].tracks[2], nd["pitch"], nd["velocity"])

(* C10: every note of a successful convert-midi response has start >= 0,    *)
(* duration > 0 (no note is reported with duration 0), pitch and velocity   *)
(* in 0..127, start and duration being the decoded values rounded to a      *)
(* millisecond.                                                             *)
C10_NoteDomain ==
    \A r \in Slots :
        (IsConvert(r) /\ resp[r].status = 200) =>
            \A n \in DOMAIN resp[r].body.instruments :
                \A i \in DOMAIN resp[r].body.instruments[n].notes :
                    LET nj == resp[r].body.instruments[n].notes[i]
                        note == midi[r].instruments[n].notes[i]
                    IN  /\ nj.start = Round3(note.start, midi[r].resolution)
                        /\ nj.duration = Round3(note.end - note.start, midi[r].resolution)
                        /\ nj.start >= 0
                        /\ nj.duration > 0
                        /\ nj.pitch \in 0..127
                        /\ nj.velocity \in 0..127

(* the instruments a request describes *)
RequestInstruments(d) ==
    IF "instruments" \in DOMAIN d
    THEN [n \in DOMAIN d["instruments"] |->
            [program |-> Get(d["instruments"][n], "program", 0),
             notes |-> Get(d["instruments"][n], "notes", <<>>)]]
    ELSE IF "notes" \in DOMAIN d THEN <<[program |-> 0, notes |-> d["notes"]]>>
    ELSE <<>>

ValidNote(nd) ==
    /\ HasKeys(nd, NoteKeys)
    /\ nd["start"] >= 0 /\ nd["duration"] > 0
    /\ nd["pitch"] \in 0..127 /\ nd["velocity"] \in 0..127

(* a request that is a Score of the data model *)
ValidScore(d) ==
    /\ \A n \in DOMAIN RequestInstruments(d) :
          /\ RequestInstruments(d)[n].program \in 0..127
          /\ \A i \in DOMAIN RequestInstruments(d)[n].notes :
                ValidNote(RequestInstruments(d)[n].notes[i])
    /\ ValidTempoMap(d)
    /\ StrictlyAscending([i \in DOMAIN Get(d, "tempo_changes", <<>>) |-> d["tempo_changes"][i]["time"]])
    /\ \A i \in DOMAIN Get(d, "time_signatures", <<>>) :
          /\ TimeSigEntryOk(d["time_signatures"][i])
          /\ IsPowerOfTwo(d["time_signatures"][i]["denominator"])
    /\ StrictlyAscending([i \in DOMAIN Get(d, "time_signatures", <<>>) |->
                             d["time_signatures"][i]["time"]])

(* two times in milliseconds within one tick of the written file *)
WithinTick(a, b) == Abs(a - b) * 1000 * DefaultResolution <= DefaultTempoUs

(* the decoded notes are the request's notes, in some order *)
NotesMatch(decoded, nds) ==
    /\ Len(decoded) = Len(nds)
    /\ \E f \in Permutations(DOMAIN nds) :
          \A i \in DOMAIN nds :
              /\ decoded[f[i]].pitch = nds[i]["pitch"]
              /\ decoded[f[i]].velocity = nds[i]["velocity"]
              /\ WithinTick(decoded[f[i]].start, nds[i]["start"])
              /\ WithinTick(decoded[f[i]].duration, nds[i]["duration"])

HasNotes(inst) == inst.notes # <<>>

(* the time signatures expected back: those of the request, after the 4/4   *)
(* at time 0 the writer adds when the request has none at time 0            *)
ExpectedTimeSignatures(d) ==
    LET given == Get(d, "time_signatures", <<>>)
    IN  IF \E i \in DOMAIN given : given[i]["time"] = 0 THEN given
        ELSE <<[time |-> 0, numerator |-> 4, denominator |-> 4]>> \o given

(* C1: a Score of the data model, encoded by generate-midi and decoded by   *)
(* convert-midi, comes back with the same notes per instrument (pitch,      *)
(* velocity and program exact, start and duration within one tick) and the  *)
(* same tempo-change and time-signature sequences.  Read in the code's      *)
(* favour: instruments without notes are not compared, the tempo sequence   *)
(* is compared with the implicit 120 BPM at time 0, the time signatures     *)
(* with the writer's default 4/4 at time 0.                                 *)
C1_RoundTrip ==
    \A r, q \in Slots :
        (/\ IsGenerate(r) /\ resp[r].status = 200 /\ ValidScore(data[r])
         /\ IsConvert(q) /\ pc[q] = "done"
         /\ data[q] = [midi_base64 |-> resp[r].body.midi_base64]) =>
            /\ resp[q].status = 200
            /\ LET want == SelectSeq(RequestInstruments(data[r]), HasNotes)
                   got == resp[q].body.instruments
               IN  /\ Len(got) = Len(want)
                   /\ \A n \in DOMAIN want :
                         /\ got[n].program = want[n].program
                         /\ NotesMatch(got[n].notes, want[n].notes)
            /\ resp[q].body.tempo_changes =
                  [i \in DOMAIN TempoMapOf(data[r]) |->
                      [time |-> TempoMapOf(data[r])[i]["time"],
                       tempo |-> TempoMapOf(data[r])[i]["tempo"] * 1000]]
            /\ resp[q].body.time_signatures = ExpectedTimeSignatures(data[r])

====
